---- MODULE Spec2Model ----
(***************************************************************************)
(* A model of ogs-fetch.py: the crawler that mirrors a user's finished     *)
(* games from the online-go.com API into ./index/<user>.json and           *)
(* ./games/<user>/<game>.sgf.                                              *)
(*                                                                         *)
(* Spec        the tool as a whole: the server's game lists, the files on  *)
(*             disk, and one process at a time running __main__.           *)
(* SpecClient  throttled_get step by step against a monotonic clock.       *)
(***************************************************************************)
EXTENDS Integers, Sequences, FiniteSets, TLC

\* ------------------------------------------------------------------ bounds
NumUsers == 2
MaxGames == 3
\* list_user_games asks for pages of 50; the model's server cuts pages of
\* PageSize games so that bounded lists still span several pages.
PageSize == 2
MaxRemovals == 1
MaxInterrupts == 1
MaxScript == 2
MaxLimit == 3
MaxAdd == 1

Users == 1..NumUsers
\* Python's None where an integer is expected, and a local never assigned.
None == 0 - 1
Unbound == 0 - 1

Min(a, b) == IF a < b THEN a ELSE b

SeqsUpTo(S, n) == UNION {[1..k -> S] : k \in 0..n}

\* --------------------------------------------------------------- strings
\* A string is a sequence of characters, each written as a TLA+ string;
\* "<e9>" is the letter e with an acute accent, a character outside ASCII
\* of which str.isalnum is true.
NonAsciiLetter == "<e9>"

AlnumChars == {"a", "b", "g", "o", "x", "1", NonAsciiLetter}

isalnum(c) == c \in AlnumChars

\* sanitize_name without its filter.
sanitize_name_keep(name) == name

RECURSIVE sanitize_name(_)
sanitize_name(name) ==
    IF name = <<>> THEN <<>>
    ELSE LET c == Head(name)
         IN  IF isalnum(c) \/ c \in {" ", "_"}
             THEN <<c>> \o sanitize_name(Tail(name))
             ELSE sanitize_name(Tail(name))

\* ------------------------------------------------------ the remote API
\* What the server holds for a game id: the list item of
\* /api/v1/players/<user>/games, in the API's shape.
RawGameName(g) ==
    CASE g % 3 = 1 -> <<"g", "!">>
      [] g % 3 = 2 -> <<"a", " ">>
      [] OTHER     -> <<"/", "_", "1">>

RawUserName(u) == IF u = 1 THEN <<"a", "-">> ELSE <<"b">>

RawOpponentName == <<"?", "o">>

ApiGame(u, g) ==
    [id |-> g,
     name |-> RawGameName(g),
     players |-> [white |-> [username |-> RawUserName(u), ranking |-> 10 + u],
                  black |-> [username |-> RawOpponentName, ranking |-> 10]],
     historical_ratings |->
         [white |-> [ratings |-> [overall |-> [rating |-> 20 + u]]],
          black |-> [ratings |-> [overall |-> [rating |-> 20]]]]]

Statuses == {200, 429, 500}

\* An error response's body is either not JSON at all or a JSON object
\* without the fields of a page.
ErrorBodies == {"html", "json"}

PageResults(list, k) ==
    SubSeq(list, (k - 1) * PageSize + 1, Min(k * PageSize, Len(list)))

\* The page's 'next' link: the number of the next page, None on the last.
PageNext(list, k) == IF k * PageSize < Len(list) THEN k + 1 ELSE None

\* ---------------------------------------------------------- normalizer
Player_from_dict(dict) == [name |-> dict.name, rank |-> dict.rank]

Player_from_api_dict(dict) ==
    [name |-> sanitize_name(dict.username), rank |-> dict.ranking]

GameInfo_from_dict(dict) ==
    [id |-> dict.id,
     name |-> sanitize_name(dict.name),
     white |-> Player_from_dict(dict.white),
     black |-> Player_from_dict(dict.black)]

GameInfo_from_api_dict(dict) ==
    LET game == [id |-> dict.id,
                 name |-> sanitize_name(dict.name),
                 white |-> Player_from_api_dict(dict.players.white),
                 black |-> Player_from_api_dict(dict.players.black)]
    IN  [game EXCEPT
            !.white.rank = dict.historical_ratings.white.ratings.overall.rating,
            !.black.rank = dict.historical_ratings.black.ratings.overall.rating]

\* dataclasses.asdict of a GameInfo: the persisted shape of one record.
asdict(game) ==
    [id |-> game.id,
     name |-> game.name,
     white |-> [name |-> game.white.name, rank |-> game.white.rank],
     black |-> [name |-> game.black.name, rank |-> game.black.rank]]

\* ---------------------------------------------------------- exceptions
NoExc == [name |-> "none", src |-> "none", status |-> 0]

Raise(name, src) == [name |-> name, src |-> src, status |-> 0]

HTTPError(status, src) == [name |-> "HTTPError", src |-> src, status |-> status]

\* ------------------------------------------------------------- variables
VARIABLES
    server,       \* server[u]: the ids of u's finished games, newest first
    removals,     \* how many games the server has dropped from its lists
    interrupts,   \* how many KeyboardInterrupts the user has sent
    index_dir,    \* whether ./index exists
    index_files,  \* index_files[u]: ./index/<u>.json
    game_files,   \* the archive: path -> content
    pc,           \* where the running process is
    args,         \* its command line
    pos,          \* position in the loop the process is in
    indices,      \* load_all_games' dict: the keys in order, and the values
    gen_pos,      \* how many games take() has yielded for the current user
    exc,          \* the exception that ended the process
    builds,       \* the build_index calls of this process
    calls,        \* the load_game calls of this process
    last,         \* what the last operation did
    now,          \* time.monotonic(), in tenths
    last_call,    \* throttled_get.last_call
    tg            \* throttled_get's frame in SpecClient

disk == <<index_dir, index_files, game_files>>
proc == <<pc, args, pos, indices, gen_pos, exc, builds, calls>>
client == <<now, last_call, tg>>
world == <<server, removals, interrupts>>
vars == <<world, disk, proc, last, client>>

\* ------------------------------------------------------------ HTTP client
\* throttled_get returning a 429 response to its caller.
is_rate_limited_never(status) == FALSE

\* Line 78: `if result.status_code == 429`
is_rate_limited(status) == status = 429

\* throttled_get against a server that answers the successive requests with
\* the statuses of script (200 once the script is used up): the status
\* returned, the requests sent, and the back-off sleeps.
RECURSIVE throttled_get(_, _, _)
throttled_get(url, script, throttle_delay) ==
    LET status == IF script = <<>> THEN 200 ELSE Head(script)
        rest == IF script = <<>> THEN <<>> ELSE Tail(script)
        req == [url |-> url, status |-> status]
    IN  IF is_rate_limited(status)
        THEN LET r == throttled_get(url, rest, throttle_delay * 2)
             IN  [r EXCEPT !.reqs = <<req>> \o @,
                           !.sleeps = <<throttle_delay>> \o @]
        ELSE [status |-> status, rest |-> rest, reqs |-> <<req>>, sleeps |-> <<>>]

ThrottleDelay == 10

\* A response whose status is never looked at.
raise_for_status_never(status) == FALSE

\* Response.raise_for_status raises for 4xx and 5xx.
raise_for_status(status) == status >= 400 /\ status < 600

\* ------------------------------------------------------------------ JSON
\* json.dumps of a str (ensure_ascii is left at its default): the text
\* between quotes, with quote and backslash escaped and a character outside
\* ASCII written as \u and its code.
RECURSIVE json_escape(_)
json_escape(str) ==
    IF str = <<>> THEN <<>>
    ELSE LET c == Head(str)
         IN  (IF c \in {"\"", "\\"} THEN <<"\\", c>>
              ELSE IF c = NonAsciiLetter THEN <<"\\", "u", "00e9">>
              ELSE <<c>>) \o json_escape(Tail(str))

json_dumps_str(str) == <<"\"">> \o json_escape(str) \o <<"\"">>

\* json.loads of the text between the quotes.
RECURSIVE json_unescape(_)
json_unescape(text) ==
    IF text = <<>> THEN <<>>
    ELSE IF Head(text) = "\\"
    THEN IF text[2] = "u"
         THEN <<NonAsciiLetter>> \o json_unescape(SubSeq(text, 4, Len(text)))
         ELSE <<text[2]>> \o json_unescape(SubSeq(text, 3, Len(text)))
    ELSE <<Head(text)>> \o json_unescape(Tail(text))

\* A parser that takes the text between the quotes as it is.
json_loads_str_raw(text) == SubSeq(text, 2, Len(text) - 1)

json_loads_str(text) == json_unescape(SubSeq(text, 2, Len(text) - 1))

\* json.dumps and json.loads of one record of the index: an object of an
\* integer, a string and two objects of a string and an integer.
json_dumps(dict) ==
    [id |-> dict.id,
     name |-> json_dumps_str(dict.name),
     white |-> [name |-> json_dumps_str(dict.white.name), rank |-> dict.white.rank],
     black |-> [name |-> json_dumps_str(dict.black.name), rank |-> dict.black.rank]]

json_loads(obj) ==
    [id |-> obj.id,
     name |-> json_loads_str(obj.name),
     white |-> [name |-> json_loads_str(obj.white.name), rank |-> obj.white.rank],
     black |-> [name |-> json_loads_str(obj.black.name), rank |-> obj.black.rank]]

\* ------------------------------------------------------------ index store
AbsentFile == [kind |-> "absent", data |-> <<>>]
CorruptFile == [kind |-> "corrupt", data |-> <<>>]
JsonFile(data) == [kind |-> "json", data |-> data]

\* read_index of a file: open fails with IOError on an absent file, and
\* json.loads fails with JSONDecodeError on one that is not JSON.
read_index(file) ==
    IF file.kind = "absent" THEN [exc |-> NoExc, old_games |-> <<>>]
    ELSE IF file.kind = "corrupt"
    THEN [exc |-> Raise("JSONDecodeError", "read_index"), old_games |-> <<>>]
    ELSE [exc |-> NoExc,
          old_games |-> [i \in 1..Len(file.data) |->
                            GameInfo_from_dict(json_loads(file.data[i]))]]

\* write_index: open(path, 'w') truncates the file, and a KeyboardInterrupt
\* before the data is flushed leaves it truncated.
write_index(games, interrupted) ==
    IF interrupted
    THEN [exc |-> Raise("KeyboardInterrupt", "write_index"), file |-> CorruptFile]
    ELSE [exc |-> NoExc,
          file |-> JsonFile([i \in 1..Len(games) |-> json_dumps(asdict(games[i]))])]

\* ---------------------------------------------------------- index builder
ListUrl(u, page) == <<"games", u, page>>

\* The generator list_user_games(user_id) resumed: gen is its frame (page 0:
\* not started), list what the server holds. It yields a game, ends, or raises.
RECURSIVE list_user_games_next(_, _, _, _)
list_user_games_next(u, list, body, gen) ==
    IF gen.page = 0
    THEN LET r == throttled_get(ListUrl(u, 1), gen.script, ThrottleDelay)
             g == [gen EXCEPT !.script = r.rest, !.reqs = @ \o r.reqs]
         IN  IF raise_for_status(r.status)
             THEN [kind |-> "raise", exc |-> HTTPError(r.status, "list_user_games"),
                   gen |-> g]
             ELSE list_user_games_next(u, list, body, [g EXCEPT !.page = 1, !.i = 0])
    ELSE IF gen.i < Len(PageResults(list, gen.page))
    THEN [kind |-> "yield",
          game |-> GameInfo_from_api_dict(
                       ApiGame(u, PageResults(list, gen.page)[gen.i + 1])),
          gen |-> [gen EXCEPT !.i = @ + 1]]
    ELSE IF PageNext(list, gen.page) = None
    THEN [kind |-> "stop", gen |-> gen]
    ELSE LET r == throttled_get(ListUrl(u, PageNext(list, gen.page)), gen.script,
                                ThrottleDelay)
             g == [gen EXCEPT !.script = r.rest, !.reqs = @ \o r.reqs]
         IN  IF r.status # 200
             THEN \* .json() of the error body, then data['results']
                  [kind |-> "raise",
                   exc |-> IF body = "html"
                           THEN Raise("JSONDecodeError", "list_user_games")
                           ELSE Raise("KeyError", "list_user_games"),
                   gen |-> g]
             ELSE list_user_games_next(u, list, body,
                                       [g EXCEPT !.page = PageNext(list, gen.page),
                                                 !.i = 0])

\* build_index without its `break`.
caught_up_never(old_games, game) == FALSE

\* Line 137: `if old_games and old_games[0].id == game.id`
caught_up(old_games, game) == old_games # <<>> /\ old_games[1].id = game.id

\* The for loop of build_index from its idx-th iteration on.
RECURSIVE build_index_loop(_, _, _, _, _, _, _)
build_index_loop(u, list, body, old_games, idx, new_games, gen) ==
    LET n == list_user_games_next(u, list, body, gen)
    IN  IF n.kind = "raise"
        THEN [exc |-> n.exc, idx |-> idx, new_games |-> new_games, reqs |-> n.gen.reqs]
        ELSE IF n.kind = "stop"
        THEN [exc |-> NoExc, idx |-> idx - 1, new_games |-> new_games,
              reqs |-> n.gen.reqs]
        ELSE IF caught_up(old_games, n.game)
        THEN [exc |-> NoExc, idx |-> idx, new_games |-> new_games, reqs |-> n.gen.reqs]
        ELSE build_index_loop(u, list, body, old_games, idx + 1,
                              Append(new_games, n.game), n.gen)

\* build_index(user_id) on the index file `file`, the server holding `list`
\* and answering with `script`; `interrupted`: a KeyboardInterrupt arrives
\* while the index is written.
build_index(u, file, list, script, body, interrupted) ==
    LET rd == read_index(file)
        old_games == rd.old_games
        loop == build_index_loop(u, list, body, old_games, 0, <<>>,
                                 [page |-> 0, i |-> 0, script |-> script, reqs |-> <<>>])
        all_games == loop.new_games \o old_games
        wr == write_index(all_games, interrupted)
        base == [user |-> u, before |-> file, served |-> list, old_games |-> old_games,
                 read_exc |-> rd.exc, exc |-> NoExc, reqs |-> <<>>, new_games |-> <<>>,
                 writes |-> 0, returned |-> FALSE, all_games |-> <<>>, file |-> file]
    IN  IF rd.exc # NoExc THEN [base EXCEPT !.exc = rd.exc]
        ELSE IF loop.exc # NoExc
        THEN [base EXCEPT !.exc = loop.exc, !.reqs = loop.reqs,
                          !.new_games = loop.new_games]
        ELSE IF loop.idx = Unbound
        THEN \* `if idx != 0` with idx never assigned
             [base EXCEPT !.exc = Raise("UnboundLocalError", "build_index"),
                          !.reqs = loop.reqs]
        ELSE IF loop.idx # 0
        THEN [base EXCEPT !.exc = wr.exc, !.reqs = loop.reqs,
                          !.new_games = loop.new_games, !.writes = 1,
                          !.file = wr.file,
                          !.returned = (wr.exc = NoExc),
                          !.all_games = IF wr.exc = NoExc THEN all_games ELSE <<>>]
        ELSE [base EXCEPT !.reqs = loop.reqs, !.new_games = loop.new_games,
                          !.returned = TRUE, !.all_games = all_games]

\* ---------------------------------------------------------- archive loader
\* take(iterator, count) resumed after it has yielded k items.
take(games, count, k) ==
    IF count = None
    THEN IF k < Len(games)
         THEN [kind |-> "yield", game |-> games[k + 1]]
         ELSE \* `yield from` is over and range(None) is evaluated
              [kind |-> "raise", exc |-> Raise("TypeError", "take")]
    ELSE IF k < count
    THEN IF k < Len(games)
         THEN [kind |-> "yield", game |-> games[k + 1]]
         ELSE \* next(iterator) raises StopIteration inside the generator
              [kind |-> "raise", exc |-> Raise("RuntimeError", "take")]
    ELSE [kind |-> "stop"]

\* './games/{user_id}/{id} {name} [{black} vs {white}].sgf'
ArchivePath(u, game_info) ==
    <<u, game_info.id, game_info.name, game_info.black.name, game_info.white.name>>

SgfUrl(id) == <<"sgf", id, 0>>

SgfText(id) == [game |-> id, complete |-> TRUE]

\* What open(path, 'w') and an interrupted f.write leave on disk.
PartialText(id) == [game |-> id, complete |-> FALSE]

\* Path(path).delete(): pathlib.Path has no such method.
Path_delete(files, path) ==
    [exc |-> Raise("AttributeError", "load_game"), files |-> files]

\* load_game without its `if Path(path).exists(): return`.
load_game_refetch(u, game_info, files, script, interrupted) ==
    LET path == ArchivePath(u, game_info)
        r == throttled_get(SgfUrl(game_info.id), script, ThrottleDelay)
        base == [user |-> u, game |-> game_info, path |-> path,
                 existed |-> path \in DOMAIN files,
                 reqs |-> r.reqs, interrupted |-> FALSE, exc |-> NoExc, files |-> files]
    IN  IF raise_for_status(r.status)
        THEN [base EXCEPT !.exc = HTTPError(r.status, "load_game")]
        ELSE IF interrupted
        THEN [base EXCEPT !.interrupted = TRUE,
                          !.exc = Raise("AttributeError", "load_game"),
                          !.files = (path :> PartialText(game_info.id)) @@ files]
        ELSE [base EXCEPT !.files = (path :> SgfText(game_info.id)) @@ files]

\* load_game(user_id, game_info) with the archive holding `files`;
\* `interrupted`: a KeyboardInterrupt arrives while the file is written.
load_game(u, game_info, files, script, interrupted) ==
    LET path == ArchivePath(u, game_info)
        r == throttled_get(SgfUrl(game_info.id), script, ThrottleDelay)
        del == Path_delete((path :> PartialText(game_info.id)) @@ files, path)
        base == [user |-> u, game |-> game_info, path |-> path, existed |-> FALSE,
                 reqs |-> <<>>, interrupted |-> FALSE, exc |-> NoExc, files |-> files]
    IN  IF path \in DOMAIN files THEN [base EXCEPT !.existed = TRUE]
        ELSE IF raise_for_status(r.status)
        THEN [base EXCEPT !.reqs = r.reqs, !.exc = HTTPError(r.status, "load_game")]
        ELSE IF interrupted
        THEN [base EXCEPT !.reqs = r.reqs, !.interrupted = TRUE,
                          !.exc = IF del.exc # NoExc THEN del.exc
                                  ELSE Raise("KeyboardInterrupt", "load_game"),
                          !.files = del.files]
        ELSE [base EXCEPT !.reqs = r.reqs,
                          !.files = (path :> SgfText(game_info.id)) @@ files]

\* --------------------------------------------------------------- the tool
Scripts == SeqsUpTo(Statuses, MaxScript)

NoOp == [op |-> "none"]

Limits == {None, 1, MaxLimit}

ArgSets ==
    [add : {None} \cup {0}, users : SeqsUpTo(Users, MaxAdd), limit : Limits,
     fetch : BOOLEAN]

\* argparse: --add absent gives None, --add with no value the empty list.
\* --limit is read by load_all_games only, so it is left out without --fetch.
ValidArgs ==
    {a \in ArgSets : (a.add = None => a.users = <<>>) /\ (~a.fetch => a.limit = None)}

NoArgs == [add |-> None, users |-> <<>>, limit |-> None, fetch |-> FALSE]

NoUrl == <<"none", 0, 0>>

\* throttled_get's frame: the request it is about, how often it was called
\* and re-sent, when the last request was sent (at), and how long after the
\* request before it (gap; None before the second request). initial is the
\* throttle_delay of the outermost call, sent the url of the request last
\* sent for it, slept the back-off sleep last asked of time.sleep.
IdleFrame ==
    [pc |-> "idle", url |-> NoUrl, throttle_delay |-> 0, calls |-> 0,
     retries |-> 0, status |-> 0, at |-> None, gap |-> None,
     initial |-> 0, sent |-> NoUrl, slept |-> None]

NoIndices == [order |-> <<>>, games |-> [u \in Users |-> <<>>]]

Init ==
    /\ server = [u \in Users |-> <<>>]
    /\ removals = 0
    /\ interrupts = 0
    /\ index_dir = FALSE
    /\ index_files = [u \in Users |-> AbsentFile]
    /\ game_files = <<>>
    /\ pc = "idle"
    /\ args = NoArgs
    /\ pos = 0
    /\ indices = NoIndices
    /\ gen_pos = 0
    /\ exc = NoExc
    /\ builds = <<>>
    /\ calls = <<>>
    /\ last = NoOp
    /\ now = 0
    /\ last_call = 0
    /\ tg = IdleFrame

\* ---- the server
RECURSIVE TotalLen(_, _)
TotalLen(lists, n) == IF n = 0 THEN 0 ELSE Len(lists[n]) + TotalLen(lists, n - 1)

NextId == TotalLen(server, NumUsers) + removals + 1

\* A game of user u ends: it becomes the first of the newest-first list.
ServerFinishGame(u) ==
    /\ NextId <= MaxGames
    /\ server' = [server EXCEPT ![u] = <<NextId>> \o @]
    /\ last' = NoOp
    /\ UNCHANGED <<removals, interrupts, disk, proc, client>>

\* The server stops listing a game.
ServerRemoveGame(u, i) ==
    /\ removals < MaxRemovals
    /\ i \in 1..Len(server[u])
    /\ server' = [server EXCEPT ![u] = SubSeq(@, 1, i - 1) \o SubSeq(@, i + 1, Len(@))]
    /\ removals' = removals + 1
    /\ UNCHANGED interrupts
    /\ last' = NoOp
    /\ UNCHANGED <<disk, proc, client>>

\* ---- __main__
AfterAdd(a) == IF a.fetch THEN "fetch" ELSE "done"

\* A process is started with the command line a.
Start(a) ==
    /\ pc = "idle"
    /\ args' = a
    /\ pc' = IF a.add # None /\ a.users # <<>> THEN "add" ELSE AfterAdd(a)
    /\ last' = NoOp
    /\ UNCHANGED <<world, disk, pos, indices, gen_pos, exc, builds, calls,
                   client>>

\* The process is gone, with a zero or a non-zero exit status; the files stay.
Exit ==
    /\ pc \in {"done", "failed"}
    /\ pc' = "idle"
    /\ args' = NoArgs
    /\ pos' = 0
    /\ indices' = NoIndices
    /\ gen_pos' = 0
    /\ exc' = NoExc
    /\ builds' = <<>>
    /\ calls' = <<>>
    /\ last' = NoOp
    /\ UNCHANGED <<world, disk, client>>

\* One build_index call and what it leaves behind.
Build(u, phase, script, body, interrupted) ==
    \E r \in {build_index(u, index_files[u], server[u], script, body, interrupted)} :
        /\ index_dir' = TRUE
        /\ index_files' = [index_files EXCEPT ![u] = r.file]
        /\ builds' = Append(builds, [user |-> u, phase |-> phase])
        /\ last' = [op |-> "build_index", user |-> u, served |-> r.served,
                     old_games |-> r.old_games, added |-> Len(r.new_games),
                     reqs |-> r.reqs, writes |-> r.writes, exc |-> r.exc,
                     returned |-> r.returned, all_games |-> r.all_games]
        /\ exc' = r.exc
        \* the interrupt is one the user sent: it met the write of the index
        /\ interrupted <=> r.exc.name = "KeyboardInterrupt"
        /\ interrupted => interrupts < MaxInterrupts
        /\ interrupts' = IF interrupted THEN interrupts + 1 ELSE interrupts
        /\ UNCHANGED <<server, removals, game_files, args, gen_pos, calls, client>>

\* for user_id in args.add: build_index(user_id)
MainAdd(script, body, interrupted) ==
    /\ pc = "add"
    /\ Build(args.users[pos + 1], "add", script, body, interrupted)
    /\ pos' = IF pos + 1 < Len(args.users) THEN pos + 1 ELSE 0
    /\ pc' = IF exc' # NoExc THEN "failed"
             ELSE IF pos + 1 < Len(args.users) THEN "add"
             ELSE AfterAdd(args)
    /\ UNCHANGED indices

\* ---- load_all_games
KnownUsers == {u \in Users : index_files[u].kind # "absent"}

\* The orders in which a directory may list the index files of the users S.
Orders(S) ==
    {o \in SeqsUpTo(Users, NumUsers) :
        /\ {o[i] : i \in DOMAIN o} = S
        /\ \A i, j \in DOMAIN o : i # j => o[i] # o[j]}

\* The loop a process is in after its position moved to p over `order`.
AfterBuilds(order, p) ==
    IF p < Len(order) THEN "la_build"
    ELSE IF order # <<>> THEN "la_load" ELSE "done"

\* get_all_indices(): os.listdir('./index'), then read_index of every file,
\* in the order the directory lists them.
get_all_indices(order) ==
    IF ~index_dir
    THEN [exc |-> Raise("FileNotFoundError", "get_all_indices"), indices |-> NoIndices]
    ELSE IF \E u \in KnownUsers : read_index(index_files[u]).exc # NoExc
    THEN [exc |-> (CHOOSE e \in {read_index(index_files[u]).exc : u \in KnownUsers} :
                       e # NoExc),
          indices |-> NoIndices]
    ELSE [exc |-> NoExc,
          indices |-> [order |-> order,
                       games |-> [u \in Users |-> read_index(index_files[u]).old_games]]]

LoadAllStart(order) ==
    /\ pc = "fetch"
    /\ order \in Orders(KnownUsers)
    /\ \E r \in {get_all_indices(order)} :
           /\ indices' = r.indices
           /\ exc' = r.exc
           /\ pc' = IF r.exc # NoExc THEN "failed" ELSE AfterBuilds(order, 0)
    /\ pos' = 0
    /\ gen_pos' = 0
    /\ last' = NoOp
    /\ UNCHANGED <<world, disk, args, builds, calls, client>>

\* The users whose index files get_all_indices found.
KnownAtStart == {indices.order[i] : i \in DOMAIN indices.order}

\* load_all_games without its `continue`: no user is left out.
IsAdded_never(u) == FALSE

\* `if added and user_id in added`
IsAdded(u) == args.add # None /\ \E i \in DOMAIN args.users : args.users[i] = u

LoadAllSkip ==
    /\ pc = "la_build"
    /\ IsAdded(indices.order[pos + 1])
    /\ pos' = IF pos + 1 < Len(indices.order) THEN pos + 1 ELSE 0
    /\ pc' = AfterBuilds(indices.order, pos + 1)
    /\ last' = NoOp
    /\ UNCHANGED <<world, disk, args, indices, gen_pos, exc, builds, calls,
                   client>>

LoadAllBuild(script, body, interrupted) ==
    /\ pc = "la_build"
    /\ ~IsAdded(indices.order[pos + 1])
    /\ Build(indices.order[pos + 1], "fetch", script, body, interrupted)
    /\ indices' = IF exc' = NoExc
                  THEN [indices EXCEPT !.games[indices.order[pos + 1]] = last'.all_games]
                  ELSE indices
    /\ pos' = IF exc' = NoExc /\ pos + 1 < Len(indices.order) THEN pos + 1 ELSE 0
    /\ pc' = IF exc' # NoExc THEN "failed" ELSE AfterBuilds(indices.order, pos + 1)

\* The generator take(games, limit) of the user the second loop is at.
Taken == take(indices.games[indices.order[pos + 1]], args.limit, gen_pos)

LoadAllLoadGame(script, interrupted) ==
    /\ pc = "la_load"
    /\ Taken.kind = "yield"
    /\ \E u \in {indices.order[pos + 1]} :
       \E r \in {load_game(u, Taken.game, game_files, script, interrupted)} :
           /\ interrupted <=> r.interrupted
           /\ interrupted => interrupts < MaxInterrupts
           /\ interrupts' = IF interrupted THEN interrupts + 1 ELSE interrupts
           /\ game_files' = r.files
           /\ calls' = Append(calls, <<u, Taken.game.id>>)
           /\ last' = [op |-> "load_game", user |-> u, game |-> r.game,
                        existed |-> r.existed, reqs |-> r.reqs,
                        interrupted |-> r.interrupted, exc |-> r.exc]
           /\ exc' = r.exc
           /\ pc' = IF r.exc # NoExc THEN "failed" ELSE "la_load"
           /\ gen_pos' = IF r.exc # NoExc THEN gen_pos ELSE gen_pos + 1
    /\ UNCHANGED <<server, removals, index_dir, index_files, args, pos, indices,
                   builds, client>>

LoadAllNextUser ==
    /\ pc = "la_load"
    /\ Taken.kind = "stop"
    /\ pos' = IF pos + 1 < Len(indices.order) THEN pos + 1 ELSE 0
    /\ pc' = IF pos + 1 < Len(indices.order) THEN "la_load" ELSE "done"
    /\ gen_pos' = 0
    /\ last' = NoOp
    /\ UNCHANGED <<world, disk, args, indices, exc, builds, calls, client>>

LoadAllTakeRaises ==
    /\ pc = "la_load"
    /\ Taken.kind = "raise"
    /\ exc' = Taken.exc
    /\ pc' = "failed"
    /\ last' = NoOp
    /\ UNCHANGED <<world, disk, args, pos, indices, gen_pos, builds, calls,
                   client>>

Next ==
    \/ \E u \in Users : ServerFinishGame(u)
    \/ \E u \in Users, i \in 1..MaxGames : ServerRemoveGame(u, i)
    \/ \E a \in ValidArgs : Start(a)
    \/ Exit
    \/ \E s \in Scripts, b \in ErrorBodies, k \in BOOLEAN : MainAdd(s, b, k)
    \/ \E o \in SeqsUpTo(Users, NumUsers) : LoadAllStart(o)
    \/ LoadAllSkip
    \/ \E s \in Scripts, b \in ErrorBodies, k \in BOOLEAN : LoadAllBuild(s, b, k)
    \/ \E s \in Scripts, k \in BOOLEAN : LoadAllLoadGame(s, k)
    \/ LoadAllNextUser
    \/ LoadAllTakeRaises

Spec == Init /\ [][Next]_vars

\* ------------------------------------------------------------- the claims
Ids(games) == [i \in DOMAIN games |-> games[i].id]

NoDuplicates(ids) == \A i, j \in DOMAIN ids : i # j => ids[i] # ids[j]

\* The records list_user_games yields for what the server holds.
Served(u, list) == [i \in DOMAIN list |-> GameInfo_from_api_dict(ApiGame(u, list[i]))]

Built == last.op = "build_index"

Loaded == last.op = "load_game"

\* C1: when the served list P reaches an id of the prior index I, build_index
\* returns (the games of P before the first such id) ++ I, and no id twice.
C1_MergeAtKnownId ==
    (Built /\ last.returned) =>
        LET P == last.served
            I == last.old_games
            known == {i \in DOMAIN P : \E j \in DOMAIN I : I[j].id = P[i]}
        IN  known # {} =>
                LET k == CHOOSE i \in known : \A j \in known : i <= j
                IN  /\ last.all_games = Served(last.user, SubSeq(P, 1, k - 1)) \o I
                    /\ NoDuplicates(Ids(last.all_games))

\* C2: build_index writes the index exactly when it found at least one new
\* game: once if it added one or more games, not at all if it added none.
C2_WriteIffNewGames ==
    (Built /\ last.exc.src \notin {"read_index", "list_user_games"}) =>
        last.writes = (IF last.added >= 1 THEN 1 ELSE 0)

\* C3: an archive file that exists is never rewritten or deleted, and a
\* load_game for a game whose file exists sends no request.
C3_ArchiveWrittenOnce ==
    [][/\ \A p \in DOMAIN game_files :
              p \in DOMAIN game_files' /\ game_files'[p] = game_files[p]
       /\ (last'.op = "load_game"
           /\ ArchivePath(last'.user, last'.game) \in DOMAIN game_files)
              => (last'.reqs = <<>> /\ game_files' = game_files)]_vars

\* C3's case: load_game was called for a game that was already archived.
C3_Witness ==
    /\ Loaded
    /\ last.existed
    /\ game_files[ArchivePath(last.user, last.game)] = SgfText(last.game.id)

\* C4: after a KeyboardInterrupt during the write of an archive file, no file
\* is left at the path and KeyboardInterrupt is what load_game raises.
C4_InterruptCleansUp ==
    (Loaded /\ last.interrupted) =>
        /\ ArchivePath(last.user, last.game) \notin DOMAIN game_files
        /\ last.exc.name = "KeyboardInterrupt"

\* C5: a request answered with a status other than success and 429 is the
\* operation's last request, and the operation fails with an HTTPError that
\* carries that status.
C5_ErrorStatusRaisesHTTPError ==
    (Built \/ Loaded) =>
        \A i \in DOMAIN last.reqs :
            last.reqs[i].status \notin {200, 429} =>
                /\ i = Len(last.reqs)
                /\ last.exc.name = "HTTPError"
                /\ last.exc.status = last.reqs[i].status

\* C6: read_index never fails its caller, whatever the index file holds.
C6_ReadIndexNeverFails == exc.src # "read_index"

\* The load_game calls load_all_games owes the users from..to of its dict:
\* for each, the first n games of the index, all of them when n is None.
RECURSIVE CallsOwed(_, _, _)
CallsOwed(from, to, n) ==
    IF from > to THEN <<>>
    ELSE LET u == indices.order[from]
             games == indices.games[u]
             count == IF n = None THEN Len(games) ELSE Min(n, Len(games))
         IN  [i \in 1..count |-> <<u, games[i].id>>] \o CallsOwed(from + 1, to, n)

\* C7: without a limit, load_all_games calls load_game on every game of every
\* known user's index, in index order, and returns normally.
C7_LoadAllUnlimited ==
    (args.fetch /\ args.limit = None) =>
        /\ exc.src # "take"
        /\ pc = "done" => calls = CallsOwed(1, Len(indices.order), None)

\* C8: with limit N, load_all_games calls load_game on the first
\* min(N, length) games of every known user's index and returns normally,
\* also when N exceeds the length.
C8_LoadAllLimited ==
    (args.fetch /\ args.limit # None) =>
        /\ exc.src # "take"
        /\ pc = "done" => calls = CallsOwed(1, Len(indices.order), args.limit)

\* C9: no index returned by build_index and no index on disk holds an id twice.
C9_NoDuplicateIds ==
    /\ (Built /\ last.returned) => NoDuplicates(Ids(last.all_games))
    /\ \A u \in Users : NoDuplicates(Ids(index_files[u].data))

\* ============================================================ SpecClient
\* throttled_get line by line against the clock. Times are in tenths of a
\* second: now is time.monotonic(), which other work, sleeps and requests
\* advance.
MaxIdle == 6
MaxOversleep == 1
MaxLatency == 1
MaxCalls == 2
MaxRetries == 2

\* `if diff < 0.5`
MinInterval == 5

\* The throttle_delay a caller may pass: a short one, and the default.
InitialDelays == {2, ThrottleDelay * 10}

Urls == {ListUrl(1, 1), SgfUrl(1)}

\* throttled_get retrying with the delay it was given: no growth.
backoff_delay_same(throttle_delay) == throttle_delay

\* Line 82: the throttle_delay handed to the recursive call.
backoff_delay(throttle_delay) == throttle_delay * 2

\* throttled_get without its throttle: no sleep before the request.
throttle_sleep_never(t, prev) == 0

\* Lines 69-72: how long throttled_get sleeps before it sends the request.
throttle_sleep(t, prev) == IF t - prev < MinInterval THEN MinInterval - (t - prev) ELSE 0

\* A caller, after d tenths of other work, calls
\* throttled_get(url, throttle_delay=delay).
tg_call(url, delay, d) ==
    /\ tg.pc = "idle"
    /\ tg.calls < MaxCalls
    /\ now' = now + d
    /\ tg' = [tg EXCEPT !.pc = "entered", !.url = url, !.throttle_delay = delay,
                        !.calls = @ + 1, !.retries = 0, !.status = 0,
                        !.initial = delay, !.sent = NoUrl, !.slept = None]
    /\ UNCHANGED <<world, disk, proc, last, last_call>>

\* Lines 69-76: the throttle sleep (time.sleep may oversleep), requests.get
\* (sent when the sleep is over, answered latency later), and last_call.
tg_request(oversleep, latency, status) ==
    /\ tg.pc = "entered"
    /\ status = 429 => tg.retries < MaxRetries
    /\ \E sleep \in {throttle_sleep(now, last_call)} :
       \E start \in {now + sleep + (IF sleep > 0 THEN oversleep ELSE 0)} :
           /\ sleep = 0 => oversleep = 0
           /\ now' = start + latency
           /\ last_call' = start + latency
           /\ tg' = [tg EXCEPT !.pc = "answered", !.status = status, !.at = start,
                               !.sent = tg.url,
                               !.gap = IF tg.at = None THEN None ELSE start - tg.at]
    /\ UNCHANGED <<world, disk, proc, last>>

\* Lines 78-82: the back-off sleep and the recursive call.
tg_backoff(oversleep) ==
    /\ tg.pc = "answered"
    /\ tg.status = 429
    /\ now' = now + tg.throttle_delay + oversleep
    /\ tg' = [tg EXCEPT !.pc = "entered",
                        !.throttle_delay = backoff_delay(tg.throttle_delay),
                        !.retries = @ + 1, !.slept = tg.throttle_delay]
    /\ UNCHANGED <<world, disk, proc, last, last_call>>

\* Line 84.
tg_return ==
    /\ tg.pc = "answered"
    /\ tg.status # 429
    /\ tg' = [tg EXCEPT !.pc = "idle"]
    /\ UNCHANGED <<world, disk, proc, last, now, last_call>>

NextClient ==
    \/ \E url \in Urls, delay \in InitialDelays, d \in 0..MaxIdle : tg_call(url, delay, d)
    \/ \E o \in 0..MaxOversleep, l \in 0..MaxLatency, st \in Statuses :
           tg_request(o, l, st)
    \/ \E o \in 0..MaxOversleep : tg_backoff(o)
    \/ tg_return

SpecClient == Init /\ [][NextClient]_vars

\* C10: every outbound request starts at least the minimum interval after
\* the request before it, retries after a 429 included.
C10_ThrottleSpacing == tg.gap = None \/ tg.gap >= MinInterval

\* C10's case: the retry of a request answered 429 was sent exactly the
\* minimum interval after the request it repeats.
C10_Witness == tg.pc = "answered" /\ tg.retries > 0 /\ tg.gap = MinInterval

\* C11: the i-th back-off sleep of one call lasts initial * 2^(i-1), every
\* request sent for the call carries the call's url, and a new call starts
\* again from the delay it was given.
C11_BackoffDoubles ==
    /\ tg.pc # "idle" => tg.throttle_delay = tg.initial * 2 ^ tg.retries
    /\ tg.retries > 0 => tg.slept = tg.initial * 2 ^ (tg.retries - 1)
    /\ tg.retries = 0 => tg.slept = None
    /\ tg.sent # NoUrl => tg.sent = tg.url

\* C11's case: the second call, answered 429 twice, has slept twice its
\* initial delay before its third request.
C11_Witness ==
    /\ tg.calls = MaxCalls
    /\ tg.retries = 2
    /\ tg.pc = "answered"
    /\ tg.sent = tg.url
    /\ tg.slept = 2 * tg.initial

\* ============================================================= SpecFetch
\* One run of the tool with --fetch on a disk that earlier runs left: each
\* user's index is absent or holds the two games the server listed then,
\* and the server lists those games and at most MaxNewer newer games.
MaxAddFetch == 2

OldList(u) == <<2 * u, 2 * u - 1>>

MaxNewer == 2

\* The i-th game of u that ended after the index was written.
NewId(u, i) == (i + 1) * NumUsers + u

\* The j newer games, newest first.
NewerList(u, j) == [i \in 1..j |-> NewId(u, j + 1 - i)]

ServedLists(u) == {NewerList(u, j) \o OldList(u) : j \in 0..MaxNewer}

IndexFiles(u) == {AbsentFile, write_index(Served(u, OldList(u)), FALSE).file}

FetchArgs ==
    {a \in [add : {None} \cup {0}, users : SeqsUpTo(Users, MaxAddFetch),
            limit : Limits, fetch : {TRUE}] : a.add = None => a.users = <<>>}

InitFetch ==
    /\ server \in [Users -> UNION {ServedLists(u) : u \in Users}]
    /\ \A u \in Users : server[u] \in ServedLists(u)
    /\ index_files \in [Users -> UNION {IndexFiles(u) : u \in Users}]
    /\ \A u \in Users : index_files[u] \in IndexFiles(u)
    /\ index_dir = TRUE
    /\ removals = 0
    /\ interrupts = 0
    /\ game_files = <<>>
    /\ pc = "idle"
    /\ args = NoArgs
    /\ pos = 0
    /\ indices = NoIndices
    /\ gen_pos = 0
    /\ exc = NoExc
    /\ builds = <<>>
    /\ calls = <<>>
    /\ last = NoOp
    /\ now = 0
    /\ last_call = 0
    /\ tg = IdleFrame

\* The process is started once; when it is gone nothing else happens.
NextFetch ==
    \/ \E a \in FetchArgs : Start(a)
    \/ \E s \in Scripts, b \in ErrorBodies, k \in BOOLEAN : MainAdd(s, b, k)
    \/ \E o \in SeqsUpTo(Users, NumUsers) : LoadAllStart(o)
    \/ LoadAllSkip
    \/ \E s \in Scripts, b \in ErrorBodies, k \in BOOLEAN : LoadAllBuild(s, b, k)
    \/ \E s \in Scripts, k \in BOOLEAN : LoadAllLoadGame(s, k)
    \/ LoadAllNextUser
    \/ LoadAllTakeRaises

SpecFetch == InitFetch /\ [][NextFetch]_vars

\* The users load_all_games is told to leave out, and how often --add names u.
Excluded == IF args.add = None THEN {} ELSE {args.users[i] : i \in DOMAIN args.users}

TimesAdded(u) == Cardinality({i \in DOMAIN args.users : args.users[i] = u})

BuildCount(u, phase) ==
    Cardinality({i \in DOMAIN builds : builds[i] = [user |-> u, phase |-> phase]})

\* load_all_games is past its first loop.
BuildLoopDone ==
    \/ pc = "la_load"
    \/ pc = "done" /\ args.fetch
    \/ pc = "failed" /\ exc.src \in {"take", "load_game"}

\* The k-th load_game call is for the game at the position of the user's
\* index that the user's earlier calls have reached.
CallsFollowIndices ==
    \A k \in DOMAIN calls :
        LET u == calls[k][1]
            n == Cardinality({j \in 1..k : calls[j][1] = u})
        IN  n <= Len(indices.games[u]) /\ calls[k][2] = indices.games[u][n].id

\* What load_all_games does with the users it knows.
LoadAllBuilds ==
    /\ BuildLoopDone =>
           \A u \in Users :
               BuildCount(u, "fetch") =
                   (IF u \in KnownAtStart /\ u \notin Excluded THEN 1 ELSE 0)
    /\ CallsFollowIndices

\* The first loop keeps the index build_index returned.
LoadAllKeepsBuilt ==
    (pc = "la_build" /\ last'.op = "build_index" /\ last'.returned)
        => indices'.games[last'.user] = last'.all_games

\* C12 as stated: load_all_games builds no excluded user, builds every other
\* known user once and archives from the index that build returned; and a
\* user named in --add is built once in a run with --add and --fetch.
C12_AddedBuiltOnce ==
    /\ [](LoadAllBuilds
          /\ (BuildLoopDone =>
                 \A u \in Excluded : BuildCount(u, "add") + BuildCount(u, "fetch") = 1))
    /\ [][LoadAllKeepsBuilt]_vars

\* C12, amended: the same of load_all_games; a user named in --add is built
\* by the --add loop only, once for every time it is named.
C12_LoadAllBuildsOthersOnce ==
    /\ [](LoadAllBuilds
          /\ (BuildLoopDone =>
                 \A u \in Excluded :
                     BuildCount(u, "add") + BuildCount(u, "fetch") = TimesAdded(u)))
    /\ [][LoadAllKeepsBuilt]_vars

\* C12's case: two users are known, one named in --add and left out, the
\* other rebuilt with a new game, which is then the first to be archived.
C12_Witness ==
    /\ pc = "la_load"
    /\ Len(indices.order) = NumUsers
    /\ \E u \in Excluded : u \in KnownAtStart /\ BuildCount(u, "add") = 1
    /\ \E u \in KnownAtStart \ Excluded :
           /\ BuildCount(u, "fetch") = 1
           /\ Len(indices.games[u]) > Len(OldList(u))
           /\ \E k \in DOMAIN calls : calls[k] = <<u, NewId(u, 1)>>

\* ============================================================= SpecNames
\* sanitize_name applied to every short string over letters, digits, the
\* two other characters it keeps, and characters it drops.
MaxLen == 3

NameChars == AlnumChars \cup {" ", "_", "/", "!", "-", "?"}

Names == SeqsUpTo(NameChars, MaxLen)

\* One call per behaviour: the function keeps no state between calls.
call_sanitize_name ==
    /\ last = NoOp
    /\ \E name \in Names :
           last' = [op |-> "sanitize_name", name |-> name, result |-> sanitize_name(name)]
    /\ UNCHANGED <<world, disk, proc, client>>

NextNames == call_sanitize_name

SpecNames == Init /\ [][NextNames]_vars

\* s is t with some of its characters left out.
RECURSIVE IsSubsequence(_, _)
IsSubsequence(s, t) ==
    IF s = <<>> THEN TRUE
    ELSE IF t = <<>> THEN FALSE
    ELSE IF Head(s) = Head(t) THEN IsSubsequence(Tail(s), Tail(t))
    ELSE IsSubsequence(s, Tail(t))

\* C13: sanitize_name returns a string of alphanumeric characters, spaces
\* and underscores only, and the string is a subsequence of its input.
C13_SanitizeKeepsAllowedOnly ==
    last.op = "sanitize_name" =>
        /\ \A i \in DOMAIN last.result :
               last.result[i] \in AlnumChars \/ last.result[i] \in {" ", "_"}
        /\ IsSubsequence(last.result, last.name)

\* C13's case: a name from which a character between two kept ones is
\* dropped, one of the kept ones a space or an underscore.
C13_Witness ==
    /\ last.op = "sanitize_name"
    /\ Len(last.name) = MaxLen
    /\ Len(last.result) = MaxLen - 1
    /\ Head(last.name) \in {" ", "_"}
    /\ last.name[2] \notin AlnumChars \cup {" ", "_"}
    /\ last.name[MaxLen] \in AlnumChars

\* ------------------------------ claims about build_index and load_game
\* The page of the server's list that holds its k-th game.
PageOf(k) == (k - 1) \div PageSize + 1

\* The positions of the served list that hold the id of the old index's head.
StopPoints ==
    IF last.old_games = <<>> THEN {}
    ELSE {k \in DOMAIN last.served : last.served[k] = last.old_games[1].id}

\* C14: once build_index has fetched the game whose id is that of the old
\* index's first entry, it sends no further request (no page after that
\* game's page is asked for) and adds no game at or after that position.
C14_StopsAtKnownHead ==
    (Built /\ StopPoints # {}) =>
        LET k == CHOOSE i \in StopPoints : \A j \in StopPoints : i <= j
        IN  /\ \A i \in DOMAIN last.reqs : last.reqs[i].url[3] <= PageOf(k)
            /\ last.added <= k - 1
            /\ last.returned =>
                   last.all_games =
                       Served(last.user, SubSeq(last.served, 1, k - 1)) \o last.old_games

\* C14's case: the server's list spans a further page after the one with the
\* old head, build_index added the newer game and returned.
C14_Witness ==
    /\ Built
    /\ last.returned
    /\ last.added >= 1
    /\ \E k \in StopPoints : PageOf(k) < PageOf(Len(last.served))
    /\ last.reqs # <<>>

\* C15: when every request of build_index is answered successfully and the
\* server lists no finished game for the user, build_index returns the
\* existing index unchanged, writes nothing and raises nothing.
C15_ReturnsOnEmptyList ==
    (/\ Built
     /\ last.served = <<>>
     /\ last.reqs # <<>>
     /\ \A i \in DOMAIN last.reqs : last.reqs[i].status \in {200, 429}) =>
        /\ last.exc = NoExc
        /\ last.returned
        /\ last.all_games = last.old_games
        /\ last.writes = 0

\* C16: when build_index has returned, read_index of the user's index file
\* yields the records build_index returned, in the same order.
C16_DiskHoldsReturnedIndex ==
    (Built /\ last.returned) =>
        /\ read_index(index_files[last.user]).exc = NoExc
        /\ read_index(index_files[last.user]).old_games = last.all_games

\* The full set of new games of the build last describes: the games served
\* before the old head, all served games when the head is not served.
NewGamesOwed ==
    IF StopPoints = {} THEN Len(last.served)
    ELSE (CHOOSE i \in StopPoints : \A j \in StopPoints : i <= j) - 1

\* The index is written at most once, after the last page, with every new game.
WritesWholeIndexOnce ==
    Built =>
        /\ last.writes <= 1
        /\ last.writes = 1 =>
               /\ last.added = NewGamesOwed
               /\ \A i \in DOMAIN last.reqs : last.reqs[i].status \in {200, 429}

\* A build one of whose requests was answered with an error leaves the
\* user's index file as it was.
FailedBuildKeepsIndex ==
    (/\ last'.op = "build_index"
     /\ \E i \in DOMAIN last'.reqs : last'.reqs[i].status \notin {200, 429})
        => (index_files' = index_files /\ last'.writes = 0 /\ ~last'.returned)

\* C17: a build_index that fails on the first or a later page leaves the
\* index file exactly as it was; the index is written at most once per
\* build, after pagination, and never with a partial set of new games.
C17_FailedBuildLeavesIndex ==
    []WritesWholeIndexOnce /\ [][FailedBuildKeepsIndex]_vars

\* C17's case: the user has an index, build_index has gathered the games of
\* the first page and the request for the second page was answered with an
\* error.
C17_Witness ==
    /\ Built
    /\ index_files[last.user].kind = "json"
    /\ last.old_games # <<>>
    /\ Len(last.reqs) >= 2
    /\ last.reqs[Len(last.reqs)].status \notin {200, 429}
    /\ last.reqs[Len(last.reqs)].url = ListUrl(last.user, 2)
    /\ last.exc.src = "list_user_games"
    /\ last.writes = 0

\* C18: a load_game whose request for the game record is answered with an
\* error status creates no file at the archive path and leaves the archive
\* as it was; and a load_game for a game without a file sends the request.
C18_FailedFetchLeavesNoFile ==
    [][last'.op = "load_game" =>
           LET path == ArchivePath(last'.user, last'.game)
           IN  /\ (\E i \in DOMAIN last'.reqs : last'.reqs[i].status \notin {200, 429})
                      => (/\ path \notin DOMAIN game_files'
                          /\ game_files' = game_files
                          /\ last'.exc.name = "HTTPError")
               /\ path \notin DOMAIN game_files => last'.reqs # <<>>]_vars

\* C18's case: with other games archived, the request for a game's record
\* was retried after a 429 and then answered with an error.
C18_Witness ==
    /\ Loaded
    /\ last.exc.name = "HTTPError"
    /\ Len(last.reqs) >= 2
    /\ ArchivePath(last.user, last.game) \notin DOMAIN game_files
    /\ game_files # <<>>

\* ============================================================= SpecBuild
\* build_index step by step: one step for every request list_user_games
\* sends through throttled_get and one for every iteration of the for loop.
\* pos is the page the generator is at, gen_pos its place in the page, tg
\* the frame of throttled_get, and last the frame of build_index while it
\* runs. A request is answered 429 at most MaxRetries times.
BuildFrame(u, old_games) ==
    [op |-> "building", user |-> u, served |-> server[u], old_games |-> old_games,
     new_games |-> <<>>, idx |-> Unbound, reqs |-> <<>>]

\* throttled_get called for a page of u's list, with the default delay.
PageCall(u, page) ==
    [IdleFrame EXCEPT !.pc = "entered", !.url = ListUrl(u, page),
                      !.throttle_delay = ThrottleDelay, !.initial = ThrottleDelay]

\* What build_index leaves in `last` when it is over.
BuildOutcome(e, writes, all_games) ==
    [op |-> "build_index", user |-> last.user, served |-> last.served,
     old_games |-> last.old_games, added |-> Len(last.new_games),
     reqs |-> last.reqs, writes |-> writes, exc |-> e,
     returned |-> (e = NoExc), all_games |-> all_games]

\* Lines 128-133, and list_user_games up to its first request.
build_index_start(u) ==
    /\ pc = "idle"
    /\ \E rd \in {read_index(index_files[u])} :
           /\ last' = BuildFrame(u, rd.old_games)
           /\ exc' = rd.exc
           /\ pc' = IF rd.exc # NoExc THEN "failed" ELSE "bi_get"
    /\ index_dir' = TRUE
    /\ pos' = 1
    /\ gen_pos' = 0
    /\ tg' = PageCall(u, 1)
    /\ UNCHANGED <<world, index_files, game_files, args, indices, builds, calls,
                   now, last_call>>

\* Lines 74-84 for the page the generator asks for, then line 97 for the
\* first page and .json() of line 105 for a later one.
list_user_games_request(status, body) ==
    /\ pc = "bi_get"
    /\ status = 429 => tg.retries < MaxRetries
    /\ last' = [last EXCEPT !.reqs = Append(@, [url |-> tg.url, status |-> status])]
    /\ IF is_rate_limited(status)
       THEN /\ tg' = [tg EXCEPT !.throttle_delay = backoff_delay(tg.throttle_delay),
                                !.retries = @ + 1, !.slept = tg.throttle_delay,
                                !.sent = tg.url]
            /\ UNCHANGED <<pc, exc>>
       ELSE /\ tg' = IdleFrame
            /\ exc' = IF pos = 1
                      THEN IF raise_for_status(status)
                           THEN HTTPError(status, "list_user_games") ELSE NoExc
                      ELSE IF status = 200 THEN NoExc
                      ELSE IF body = "html"
                      THEN Raise("JSONDecodeError", "list_user_games")
                      ELSE Raise("KeyError", "list_user_games")
            /\ pc' = IF exc' # NoExc THEN "failed" ELSE "bi_loop"
    /\ UNCHANGED <<world, disk, args, pos, indices, gen_pos, builds, calls, now,
                   last_call>>

\* Lines 99-105 and 136-142: the generator is resumed and yields the next
\* game to one iteration of the for loop, or moves to the next page, or ends.
build_index_iterate ==
    /\ pc = "bi_loop"
    /\ LET u == last.user
           page == PageResults(last.served, pos)
           game == GameInfo_from_api_dict(ApiGame(u, page[gen_pos + 1]))
       IN  IF gen_pos < Len(page)
           THEN /\ gen_pos' = gen_pos + 1
                /\ IF caught_up(last.old_games, game)
                   THEN /\ last' = [last EXCEPT !.idx = Len(last.new_games)]
                        /\ pc' = "bi_end"
                   ELSE /\ last' = [last EXCEPT !.idx = Len(last.new_games),
                                                !.new_games = Append(@, game)]
                        /\ pc' = "bi_loop"
                /\ UNCHANGED <<pos, tg>>
           ELSE IF PageNext(last.served, pos) = None
           THEN /\ pc' = "bi_end"
                /\ UNCHANGED <<pos, gen_pos, tg, last>>
           ELSE /\ pos' = PageNext(last.served, pos)
                /\ gen_pos' = 0
                /\ tg' = PageCall(u, PageNext(last.served, pos))
                /\ pc' = "bi_get"
                /\ UNCHANGED last
    /\ UNCHANGED <<world, disk, args, indices, exc, builds, calls, now, last_call>>

\* Lines 144-148.
build_index_finish ==
    /\ pc = "bi_end"
    /\ LET all_games == last.new_games \o last.old_games
       IN  IF last.idx = Unbound
           THEN /\ exc' = Raise("UnboundLocalError", "build_index")
                /\ last' = BuildOutcome(exc', 0, <<>>)
                /\ UNCHANGED index_files
           ELSE IF last.idx # 0
           THEN /\ index_files' =
                       [index_files EXCEPT ![last.user] = write_index(all_games, FALSE).file]
                /\ exc' = NoExc
                /\ last' = BuildOutcome(NoExc, 1, all_games)
           ELSE /\ exc' = NoExc
                /\ last' = BuildOutcome(NoExc, 0, all_games)
                /\ UNCHANGED index_files
    /\ pc' = IF exc' # NoExc THEN "failed" ELSE "done"
    /\ UNCHANGED <<world, index_dir, game_files, args, pos, indices, gen_pos,
                   builds, calls, client>>

NextBuild ==
    \/ \E u \in Users : build_index_start(u)
    \/ \E st \in Statuses, b \in ErrorBodies : list_user_games_request(st, b)
    \/ build_index_iterate
    \/ build_index_finish

\* The process runs on: a request is answered, a sleep ends.
SpecBuild == InitFetch /\ [][NextBuild]_vars /\ WF_vars(NextBuild)

\* The requests of the build that is running or just over.
BuildReqs == IF last.op \in {"building", "build_index"} THEN last.reqs ELSE <<>>

\* Pages are asked for in order from the first; a request answered 429 is
\* followed by the same request, one answered 200 by the next page's.
ReqsInOrder ==
    /\ BuildReqs # <<>> => BuildReqs[1].url = ListUrl(last.user, 1)
    /\ \A i \in DOMAIN BuildReqs :
           IF i < Len(BuildReqs)
           THEN /\ BuildReqs[i].status \in {200, 429}
                /\ BuildReqs[i + 1].url =
                       IF BuildReqs[i].status = 429 THEN BuildReqs[i].url
                       ELSE ListUrl(last.user, BuildReqs[i].url[3] + 1)
           ELSE BuildReqs[i].status = 429 => pc = "bi_get"

\* C19: with a finite list and finitely many 429 answers to every request,
\* build_index comes to an end; every 429 is followed by one retry of the
\* same request, and no page is skipped or fetched twice.
C19_BuildTerminates ==
    /\ []ReqsInOrder
    /\ (pc = "bi_get") ~> (pc \in {"done", "failed"})

\* C19's case: a build that has returned after the request for the second
\* page was answered 429 as often as a request may be.
C19_Witness ==
    /\ Built
    /\ last.returned
    /\ pc = "done"
    /\ Len(last.reqs) = MaxRetries + 2
    /\ \A i \in 2..(MaxRetries + 1) :
           last.reqs[i] = [url |-> ListUrl(last.user, 2), status |-> 429]

\* ============================================================= SpecIndex
\* write_index followed by read_index, on indices of records the API
\* normalizer makes of list items whose game names are short strings over
\* NameChars and whose player names are of one character at most.
MaxNameLen == 2
MaxRecords == 2

ShortNames == SeqsUpTo(NameChars, MaxNameLen)

UserNames == SeqsUpTo(NameChars, 1)

\* A list item of the API with the given names.
ApiItem(id, name, username) ==
    [ApiGame(1, id) EXCEPT !.name = name, !.players.white.username = username]

\* The index list_user_games yields for n items, named s and t ++ s in turn.
ApiIndex(n, s, t) ==
    [i \in 1..n |-> GameInfo_from_api_dict(
                        ApiItem(n + 1 - i, IF i % 2 = 1 THEN s ELSE t \o s, t))]

\* write_index(user_id, games), then read_index(user_id). One call per
\* behaviour: the functions keep no state but the file.
call_write_read ==
    /\ last = NoOp
    /\ \E u \in Users, n \in 0..MaxRecords, s \in ShortNames, t \in UserNames :
       \E games \in {ApiIndex(n, s, t)} :
       \E wr \in {write_index(games, FALSE)} :
           /\ index_files' = [index_files EXCEPT ![u] = wr.file]
           /\ last' = [op |-> "write_read", user |-> u, games |-> games,
                        read |-> read_index(wr.file)]
    /\ UNCHANGED <<world, index_dir, game_files, proc, client>>

NextIndex == call_write_read

SpecIndex == Init /\ [][NextIndex]_vars

\* C20: read_index after write_index of records made by the API
\* normalizer returns the same records in the same order.
C20_IndexRoundTrips ==
    last.op = "write_read" =>
        /\ last.read.exc = NoExc
        /\ last.read.old_games = last.games
        /\ read_index(index_files[last.user]).old_games = last.games

\* C20's case: an index of several records, one with a name that json.dumps
\* escapes, with a space or an underscore in it.
C20_Witness ==
    /\ last.op = "write_read"
    /\ Len(last.games) = MaxRecords
    /\ Len(last.games[1].name) = MaxNameLen
    /\ \E i \in DOMAIN last.games[1].name :
           last.games[1].name[i] = NonAsciiLetter
    /\ \E i \in DOMAIN last.games[1].name :
           last.games[1].name[i] \in {" ", "_"}
    /\ last.games[1].white.name # <<>>
    /\ last.read.old_games = last.games

====
